---- MODULE Spec2Model ----
(***************************************************************************)
(* Quiz portal: the client-side authentication, profile provisioning and   *)
(* routing flows (OAuth callback, sign-up page, login page) and the        *)
(* student dashboard's data fetches, as state machines.                    *)
(*                                                                         *)
(* Every `await` of a handler splits it into steps: the step that issues   *)
(* the remote call and the step that consumes its response.  The response  *)
(* of a remote call is an input of the consuming step.                     *)
(***************************************************************************)
EXTENDS Integers, Sequences, FiniteSets, Bags, TLC

VARIABLES
    page,           \* the mounted page: "none", "callback", "signup", "login",
                    \* "home"
    localUserType,  \* localStorage item "userType" (Null when absent)
    profiles,       \* backend profile rows, a bag of <<email, role>>
    calls,          \* remote calls issued since the page was mounted
    navs,           \* router.replace / router.push calls since the mount
    cb,             \* AuthCallbackPage.handleAuth: position and locals (session,
                    \* error, userType, user.email)
    su,             \* SignupPage.handleSubmit: position, and the userType and
                    \* formData of its closure (formData until it returns)
    suUserType,     \* SignupPage state userType (the selected tab)
    suError,        \* SignupPage state error
    suIsLoading,    \* SignupPage state isLoading
    chk,            \* SignupPage.checkAuthAndProfile: position and locals
    lg,             \* LoginPage.handleManualAuth: position and closure
    lgActiveTab,    \* LoginPage state activeTab
    lgIsRegister,   \* LoginPage state isRegister
    lgError,        \* LoginPage state error
    lgIsLoading,    \* LoginPage state isLoading
    home,           \* HomePage: what useSession() reports (status, session)
    dashMounted,    \* StudentDashboard is mounted
    user,           \* useAuth().user: the id of the signed-in user, or Null
    loading,        \* useAuth().loading
    quizResults,    \* StudentDashboard state quizResults
    loadingData,    \* StudentDashboard state loadingData
    studentProfile, \* StudentDashboard state studentProfile
    classmates,     \* StudentDashboard state classmates
    leaderboard,    \* StudentDashboard state leaderboard (the rows' ids)
    analytics,      \* StudentDashboard state analytics
    analyticsData,  \* fetchAnalytics: the data of the last response
    pending,        \* the table reads in flight, a bag of requests
    dashNavs,       \* router.push calls of the dashboard
    backend,        \* the tables' contents as the dashboard's reads see them,
                    \* where a specification fixes them
    authChanges     \* number of changes of the auth state since the mount

authVars == <<page, localUserType, profiles, calls, navs, cb, su, suUserType,
              suError, suIsLoading, chk, lg, lgActiveTab, lgIsRegister,
              lgError, lgIsLoading, home>>

dashVars == <<dashMounted, user, loading, quizResults, loadingData,
              studentProfile, classmates, leaderboard, analytics,
              analyticsData, pending, dashNavs, backend, authChanges>>

vars == <<authVars, dashVars>>

---------------------------------------------------------------------------
(* JavaScript values *)

Null == "null"
Undefined == "undefined"

\* !x for the string-or-null values the handlers test
Falsy(x) == x \in {Null, Undefined, ""}

\* a || b
OrElse(a, b) == IF Falsy(a) THEN b ELSE a

Roles == {"student", "faculty"}

\* the e-mail address of the one identity of the model
UserEmail == "jdoe@x.edu"

\* what localStorage.getItem("userType") can return
LocalValues == {Null, "", "student", "faculty", "admin"}

\* messages of the errors the remote calls return
ErrMsgs == {"Duplicate entry", "Failed to fetch"}

\* messages of thrown errors (err.message may be missing)
ThrowMsgs == {Undefined, "Duplicate entry", "Failed to fetch"}

\* err.message.toLowerCase().includes("duplicate")
IncludesDuplicate(m) == m \in {"Duplicate entry"}

\* the values a form field can hold at submission
FieldValues(v) == {"", v}

\* formData at submission; password and department are absent from the
\* initial state, where they read as undefined (falsy, like "")
FormData == [email : FieldValues(UserEmail), password : FieldValues("pw"),
             class : FieldValues("CSE"), department : FieldValues("CS"),
             section : FieldValues("A"), username : FieldValues("jdoe")]

EmptyForm == [email |-> "", password |-> "", class |-> "", department |-> "",
              section |-> "", username |-> ""]

---------------------------------------------------------------------------
(* The log of remote calls and of navigations *)

\* arguments of a remote call, Undefined for an argument that is not passed
Args(email, department, section, username) ==
    [user_email |-> email, department |-> department, section |-> section,
     username |-> username]

NoArgs == Args(Undefined, Undefined, Undefined, Undefined)

Call(by, fn, args) == [by |-> by, fn |-> fn, args |-> args, result |-> "pending"]

\* the pending call of handler `by` gets its result
Settle(log, by, result) ==
    [i \in DOMAIN log |->
        IF log[i].by = by /\ log[i].result = "pending"
        THEN [log[i] EXCEPT !.result = result]
        ELSE log[i]]

\* the log without the calls of handler `by`
Without(log, by) == SelectSeq(log, LAMBDA c : c.by # by)

Nav(by, method, path, query) ==
    [by |-> by, method |-> method, path |-> path, query |-> query]

DashboardPath(role) ==
    IF role = "faculty" THEN "/faculty/dashboard" ELSE "/student/dashboard"

RpcName(role) ==
    IF role = "faculty" THEN "create_faculty_profile" ELSE "create_student_profile"

---------------------------------------------------------------------------
(* Initial state and page mounts *)

cbInit == [pc |-> "idle", session |-> Undefined, error |-> Undefined,
           userType |-> Undefined, email |-> Undefined]
suInit == [pc |-> "idle", userType |-> Undefined, form |-> EmptyForm]
chkInit == [pc |-> "idle", userTypeToCheck |-> Undefined, email |-> Undefined]
lgInit == [pc |-> "idle", isRegister |-> FALSE, activeTab |-> Undefined]
homeInit == [status |-> "loading", session |-> Null]

\* a page that is not mounted holds no state: its variables read as the
\* initial values of its useState calls
CallbackUnmounted(c) == c = cbInit

SignupUnmounted(s, userType, error, isLoading, c) ==
    /\ s = suInit /\ userType = "student" /\ error = "" /\ isLoading = FALSE
    /\ c = chkInit

LoginUnmounted(l, activeTab, isRegister, error, isLoading) ==
    /\ l = lgInit /\ activeTab = "student" /\ isRegister = FALSE
    /\ error = "" /\ isLoading = FALSE

HomeUnmounted(h) == h = homeInit

Unmounted ==
    /\ CallbackUnmounted(cb)
    /\ HomeUnmounted(home)
    /\ SignupUnmounted(su, suUserType, suError, suIsLoading, chk)
    /\ LoginUnmounted(lg, lgActiveTab, lgIsRegister, lgError, lgIsLoading)

\* no handler of the mounted page is waiting for a response
Idle ==
    /\ cb.pc \in {"idle", "routed", "unauthenticated"}
    /\ su.pc \in {"idle", "done"}
    /\ chk.pc \in {"idle", "done"}
    /\ lg.pc \in {"idle", "done"}

\* the mounted page has navigated away
Navigated == navs # <<>>

---------------------------------------------------------------------------
(* AuthCallbackPage: handleAuth, run once by the mount effect *)

\* line 15 without the session test: if (error)
AuthFailedErrorOnly(session, error) == error # Null

\* line 15 without the error test: if (!session)
AuthFailedNoSessionOnly(session, error) == session = Null

\* line 15: if (!session || error)
AuthFailed(session, error) == session = Null \/ error # Null

\* line 20 with the role of an existing profile taking precedence
StoredUserTypeFromProfile(item) ==
    IF BagIn(<<UserEmail, "faculty">>, profiles) THEN "faculty" ELSE OrElse(item, "student")

\* line 20: localStorage.getItem("userType") || "student"
StoredUserType(item) == OrElse(item, "student")

\* lines 23-37 testing for "student" instead of "faculty"
CallbackRpcStudentTest(userType, email) ==
    Call("handleAuth", RpcName(IF userType = "student" THEN "student" ELSE "faculty"),
         Args(email, Undefined, Undefined, Undefined))

\* lines 23-37: the provisioning call of the callback passes user_email only
CallbackRpc(userType, email) ==
    Call("handleAuth", RpcName(IF userType = "faculty" THEN "faculty" ELSE "student"),
         Args(email, Undefined, Undefined, Undefined))

\* lines 40-44 landing every role on the student dashboard
CallbackRedirectStudent(userType) ==
    Nav("handleAuth", "replace", "/student/dashboard", "")

\* lines 40-44: redirect based on userType
CallbackRedirect(userType) ==
    Nav("handleAuth", "replace",
        IF userType = "faculty" THEN "/faculty/dashboard" ELSE "/student/dashboard",
        "")

\* lines 10-13: the effect calls handleAuth, which awaits getSession()
MountCallback ==
    /\ Idle
    /\ page' = "callback"
    /\ cb' = [cbInit EXCEPT !.pc = "checking-session"]
    /\ calls' = <<Call("handleAuth", "getSession", NoArgs)>>
    /\ navs' = <<>>
    /\ SignupUnmounted(su', suUserType', suError', suIsLoading', chk')
    /\ LoginUnmounted(lg', lgActiveTab', lgIsRegister', lgError', lgIsLoading')
    /\ UNCHANGED <<localUserType, profiles>>
    /\ HomeUnmounted(home')
    /\ UNCHANGED dashVars

\* lines 13-22 without the return of line 17: after the replace to /login the
\* handler goes on with the session it has
HandleAuthSessionNoReturn(session, error) ==
    /\ page = "callback"
    /\ cb.pc = "checking-session"
    /\ IF session = Null
       THEN /\ cb' = [cb EXCEPT !.pc = "unauthenticated", !.session = session,
                                !.error = error]
            /\ calls' = Settle(calls, "handleAuth", IF error # Null THEN "error" ELSE "ok")
            /\ navs' = Append(navs, Nav("handleAuth", "replace", "/login", "error=auth"))
       ELSE /\ cb' = [pc |-> "provisioning", session |-> session, error |-> error,
                      userType |-> OrElse(localUserType, "student"), email |-> session]
            /\ calls' = Append(Settle(calls, "handleAuth", IF error # Null THEN "error" ELSE "ok"),
                               CallbackRpc(OrElse(localUserType, "student"), session))
            /\ navs' = IF error # Null
                       THEN Append(navs, Nav("handleAuth", "replace", "/login", "error=auth"))
                       ELSE navs
    /\ UNCHANGED <<page, localUserType, profiles, su, suUserType, suError,
                   suIsLoading, chk, lg, lgActiveTab, lgIsRegister, lgError,
                   lgIsLoading>>
    /\ UNCHANGED <<home, dashVars>>

\* lines 13-22: the session response arrives; without a session (or with an
\* error) the run ends at /login?error=auth, otherwise the role is read from
\* localStorage and the provisioning call is issued
HandleAuthSession(session, error) ==
    /\ page = "callback"
    /\ cb.pc = "checking-session"
    /\ IF AuthFailed(session, error)
       THEN /\ cb' = [cb EXCEPT !.pc = "unauthenticated", !.session = session,
                                !.error = error]
            /\ calls' = Settle(calls, "handleAuth", IF error # Null THEN "error" ELSE "ok")
            /\ navs' = Append(navs, Nav("handleAuth", "replace", "/login", "error=auth"))
       ELSE LET userType == StoredUserType(localUserType)
                sessionUser == session
            IN  IF sessionUser # Null
                THEN /\ cb' = [pc |-> "provisioning", session |-> session,
                               error |-> error, userType |-> userType,
                               email |-> sessionUser]
                     /\ calls' = Append(Settle(calls, "handleAuth", "ok"),
                                        CallbackRpc(userType, sessionUser))
                     /\ navs' = navs
                ELSE /\ cb' = [pc |-> "routed", session |-> session, error |-> error,
                               userType |-> userType, email |-> Undefined]
                     /\ calls' = Settle(calls, "handleAuth", "ok")
                     /\ navs' = Append(navs, CallbackRedirect(userType))
    /\ UNCHANGED <<page, localUserType, profiles, su, suUserType, suError,
                   suIsLoading, chk, lg, lgActiveTab, lgIsRegister, lgError,
                   lgIsLoading>>
    /\ UNCHANGED <<home, dashVars>>

\* the backend procedure create_<role>_profile inserting a row on every call
CreateProfileInsert(rows, email, role) == rows (+) SetToBag({<<email, role>>})

\* the backend procedure create_<role>_profile: creates the row if absent
CreateProfile(rows, email, role) ==
    IF BagIn(<<email, role>>, rows) THEN rows
    ELSE rows (+) SetToBag({<<email, role>>})

\* lines 24-44 with the provisioning call issued again after an error
HandleAuthRpcRetry(rpcError) ==
    /\ page = "callback"
    /\ cb.pc = "provisioning"
    /\ IF rpcError # Null
       THEN /\ calls' = Append(Settle(calls, "handleAuth", "error"),
                               CallbackRpc(cb.userType, cb.email))
            /\ UNCHANGED <<cb, profiles, navs>>
       ELSE /\ cb' = [cb EXCEPT !.pc = "routed"]
            /\ calls' = Settle(calls, "handleAuth", "ok")
            /\ profiles' = CreateProfile(profiles, cb.email,
                                         IF cb.userType = "faculty" THEN "faculty" ELSE "student")
            /\ navs' = Append(navs, CallbackRedirect(cb.userType))
    /\ UNCHANGED <<page, localUserType, su, suUserType, suError, suIsLoading,
                   chk, lg, lgActiveTab, lgIsRegister, lgError, lgIsLoading>>
    /\ UNCHANGED <<home, dashVars>>

\* lines 24-44: the provisioning call returns; an error is logged only, and
\* the redirect follows in either case
HandleAuthRpc(rpcError) ==
    /\ page = "callback"
    /\ cb.pc = "provisioning"
    /\ cb' = [cb EXCEPT !.pc = "routed"]
    /\ calls' = Settle(calls, "handleAuth", IF rpcError # Null THEN "error" ELSE "ok")
    /\ profiles' = IF rpcError # Null THEN profiles
                   ELSE CreateProfile(profiles, cb.email,
                                      IF cb.userType = "faculty" THEN "faculty" ELSE "student")
    /\ navs' = Append(navs, CallbackRedirect(cb.userType))
    /\ UNCHANGED <<page, localUserType, su, suUserType, suError, suIsLoading,
                   chk, lg, lgActiveTab, lgIsRegister, lgError, lgIsLoading>>
    /\ UNCHANGED <<home, dashVars>>

---------------------------------------------------------------------------
(* SignupPage: the mount effects, the role tabs and handleSubmit *)

\* lines 40-41: searchParams.get("userType") || userType, with the userType of
\* the first render
UserTypeToCheck(param) == OrElse(param, "student")

\* lines 43-57 reading the students' table for either role
ProfileTableStudent(userTypeToCheck) == "student_profiles"

\* lines 43-57: the table the existence check reads
ProfileTable(userTypeToCheck) ==
    IF userTypeToCheck = "faculty" THEN "faculty_profiles" ELSE "student_profiles"

\* lines 36-38 and 69-75: both mount effects; checkAuthAndProfile awaits
\* getSession(), the pre-fill effect selects the tab named by the query
MountSignup(param) ==
    /\ Idle
    /\ page' = "signup"
    /\ chk' = [pc |-> "getSession", userTypeToCheck |-> UserTypeToCheck(param),
               email |-> Undefined]
    /\ suUserType' = IF ~Falsy(param) THEN param ELSE "student"
    /\ su' = suInit /\ suError' = "" /\ suIsLoading' = FALSE
    /\ calls' = <<Call("checkAuthAndProfile", "getSession", NoArgs)>>
    /\ navs' = <<>>
    /\ CallbackUnmounted(cb')
    /\ LoginUnmounted(lg', lgActiveTab', lgIsRegister', lgError', lgIsLoading')
    /\ UNCHANGED <<localUserType, profiles>>
    /\ HomeUnmounted(home')
    /\ UNCHANGED dashVars

\* lines 38-57: the session response arrives (its error is not read); with a
\* session the profile row of the role is looked up by e-mail
CheckAuthSession(session) ==
    /\ page = "signup"
    /\ chk.pc = "getSession"
    /\ IF session # Null
       THEN /\ chk' = [chk EXCEPT !.pc = "select", !.email = session]
            /\ calls' = Append(Settle(calls, "checkAuthAndProfile", "ok"),
                               Call("checkAuthAndProfile", ProfileTable(chk.userTypeToCheck),
                                    Args(session, Undefined, Undefined, Undefined)))
       ELSE /\ chk' = [chk EXCEPT !.pc = "done"]
            /\ calls' = Settle(calls, "checkAuthAndProfile", "ok")
    /\ UNCHANGED <<page, localUserType, profiles, navs, cb, su, suUserType,
                   suError, suIsLoading, lg, lgActiveTab, lgIsRegister, lgError,
                   lgIsLoading>>
    /\ UNCHANGED <<home, dashVars>>

\* .select("id").eq("email", email).single(): the row, or null when there is
\* not exactly one or the read fails
SelectSingle(rows, email, table, failed) ==
    IF /\ ~failed
       /\ CopiesIn(<<email, IF table = "faculty_profiles" THEN "faculty" ELSE "student">>,
                   rows) = 1
    THEN "row" ELSE Null

\* lines 44-61: the lookup returns; an existing profile redirects to the
\* dashboard of the checked role
CheckAuthProfile(failed) ==
    /\ page = "signup"
    /\ chk.pc = "select"
    /\ LET data == SelectSingle(profiles, chk.email, ProfileTable(chk.userTypeToCheck), failed)
           profileExists == data # Null
       IN  /\ calls' = Settle(calls, "checkAuthAndProfile", IF failed THEN "error" ELSE "ok")
           /\ navs' = IF profileExists
                      THEN Append(navs, Nav("checkAuthAndProfile", "replace",
                                            IF chk.userTypeToCheck = "faculty"
                                            THEN "/faculty/dashboard"
                                            ELSE "/student/dashboard", ""))
                      ELSE navs
    /\ chk' = [chk EXCEPT !.pc = "done"]
    /\ UNCHANGED <<page, localUserType, profiles, cb, su, suUserType, suError,
                   suIsLoading, lg, lgActiveTab, lgIsRegister, lgError,
                   lgIsLoading>>
    /\ UNCHANGED <<home, dashVars>>

\* line 175: the role tabs
SetUserType(value) ==
    /\ page = "signup"
    /\ ~Navigated
    /\ suUserType # value
    /\ suUserType' = value
    /\ UNCHANGED <<page, localUserType, profiles, calls, navs, cb, su, suError,
                   suIsLoading, chk, lg, lgActiveTab, lgIsRegister, lgError,
                   lgIsLoading>>
    /\ UNCHANGED <<home, dashVars>>

\* line 87 without the test of the password
StudentFieldsMissingNoPassword(form) ==
    \/ Falsy(form.class) \/ Falsy(form.section) \/ Falsy(form.username)
    \/ Falsy(form.email)

\* line 87: the student form's required fields
StudentFieldsMissing(form) ==
    \/ Falsy(form.class) \/ Falsy(form.section) \/ Falsy(form.username)
    \/ Falsy(form.email) \/ Falsy(form.password)

\* line 125: the faculty form's required fields
FacultyFieldsMissing(form) ==
    Falsy(form.department) \/ Falsy(form.section) \/ Falsy(form.username)

\* lines 93-105: supabase.auth.signUp with the student's metadata
StudentSignUpCall(form) ==
    Call("handleSubmit", "signUp",
         Args(form.email, form.class, form.section, form.username))

\* lines 112-117: supabase.rpc('create_student_profile', ...)
StudentRpcCall(form) ==
    Call("handleSubmit", "create_student_profile",
         Args(form.email, form.class, form.section, form.username))

\* lines 131-136 with the student form's class as the department
FacultyProfileInputClass(form) ==
    Args(form.email, form.class, form.section, form.username)

\* lines 131-136: the object handed to createFacultyProfile
FacultyProfileInput(form) ==
    Args(form.email, form.department, form.section, form.username)

\* lib/auth-service createFacultyProfile: one call of the remote procedure
\* create_faculty_profile(email, department, section, username)
createFacultyProfile(input) ==
    Call("handleSubmit", "create_faculty_profile", input)

\* lines 141-145 showing err.message as it is
CatchMessageRaw(message) == message

\* lines 141-145: the message the catch block shows
CatchMessage(message) ==
    IF ~Falsy(message) /\ IncludesDuplicate(message)
    THEN "This email or username is already registered. Please log in instead."
    ELSE OrElse(message, "An error occurred. Please try again.")

\* lines 81-91, 124-136: submit; the button is disabled while isLoading.  The
\* closure holds the userType and formData of the render it was created in.
HandleSubmit(form) ==
    /\ page = "signup"
    /\ ~Navigated
    /\ ~suIsLoading
    /\ IF suUserType = "student"
       THEN IF StudentFieldsMissing(form)
            THEN /\ suError' = "All fields are required for students."
                 /\ suIsLoading' = FALSE
                 /\ su' = [pc |-> "done", userType |-> suUserType, form |-> EmptyForm]
                 /\ calls' = Without(calls, "handleSubmit")
            ELSE /\ suError' = ""
                 /\ suIsLoading' = TRUE
                 /\ su' = [pc |-> "signUp", userType |-> suUserType, form |-> form]
                 /\ calls' = Append(Without(calls, "handleSubmit"), StudentSignUpCall(form))
       ELSE IF FacultyFieldsMissing(form)
            THEN /\ suError' = "Department, section, and username are required for faculty."
                 /\ suIsLoading' = FALSE
                 /\ su' = [pc |-> "done", userType |-> suUserType, form |-> EmptyForm]
                 /\ calls' = Without(calls, "handleSubmit")
            ELSE /\ suError' = ""
                 /\ suIsLoading' = TRUE
                 /\ su' = [pc |-> "createFacultyProfile", userType |-> suUserType,
                           form |-> form]
                 /\ calls' = Append(Without(calls, "handleSubmit"),
                                    createFacultyProfile(FacultyProfileInput(form)))
    /\ UNCHANGED <<page, localUserType, profiles, navs, cb, suUserType, chk, lg,
                   lgActiveTab, lgIsRegister, lgError, lgIsLoading>>
    /\ UNCHANGED <<home, dashVars>>

\* lines 93-117: signUp returns or throws; after a success the student
\* profile call is issued
SubmitSignUp(outcome, message) ==
    /\ page = "signup"
    /\ su.pc = "signUp"
    /\ calls' = IF outcome = "ok"
                THEN Append(Settle(calls, "handleSubmit", "ok"), StudentRpcCall(su.form))
                ELSE Settle(calls, "handleSubmit", outcome)
    /\ su' = [su EXCEPT !.pc = IF outcome = "ok" THEN "rpc" ELSE "done", !.form = IF outcome = "ok" THEN su.form ELSE EmptyForm]
    /\ suError' = CASE outcome = "ok" -> suError
                    [] outcome = "error" -> message
                    [] outcome = "throw" -> CatchMessage(message)
    /\ suIsLoading' = (outcome = "ok")
    /\ UNCHANGED <<page, localUserType, profiles, navs, cb, suUserType, chk, lg,
                   lgActiveTab, lgIsRegister, lgError, lgIsLoading>>
    /\ UNCHANGED <<home, dashVars>>

\* line 123: the student's landing after a successful profile call
StudentSubmitRedirect == Nav("handleSubmit", "push", "/student/dashboard", "")

\* lines 112-123 without the return of line 121: the error is shown and the
\* push follows
SubmitStudentRpcNoReturn(rpcError) ==
    /\ page = "signup"
    /\ su.pc = "rpc"
    /\ calls' = Settle(calls, "handleSubmit", IF rpcError # Null THEN "error" ELSE "ok")
    /\ su' = [su EXCEPT !.pc = "done", !.form = EmptyForm]
    /\ suError' = IF rpcError # Null THEN rpcError ELSE suError
    /\ navs' = Append(navs, StudentSubmitRedirect)
    /\ profiles' = IF rpcError # Null THEN profiles
                   ELSE CreateProfile(profiles, su.form.email, "student")
    /\ suIsLoading' = FALSE
    /\ UNCHANGED <<page, localUserType, cb, suUserType, chk, lg, lgActiveTab,
                   lgIsRegister, lgError, lgIsLoading>>
    /\ UNCHANGED <<home, dashVars>>

\* lines 112-123, 146-148: the student profile call returns; an error is
\* shown and ends the handler, a success navigates
SubmitStudentRpc(rpcError) ==
    /\ page = "signup"
    /\ su.pc = "rpc"
    /\ calls' = Settle(calls, "handleSubmit", IF rpcError # Null THEN "error" ELSE "ok")
    /\ su' = [su EXCEPT !.pc = "done", !.form = EmptyForm]
    /\ IF rpcError # Null
       THEN /\ suError' = rpcError
            /\ navs' = navs
            /\ profiles' = profiles
       ELSE /\ suError' = suError
            /\ navs' = Append(navs, StudentSubmitRedirect)
            /\ profiles' = CreateProfile(profiles, su.form.email, "student")
    /\ suIsLoading' = FALSE
    /\ UNCHANGED <<page, localUserType, cb, suUserType, chk, lg, lgActiveTab,
                   lgIsRegister, lgError, lgIsLoading>>
    /\ UNCHANGED <<home, dashVars>>

\* line 137: the faculty's landing after createFacultyProfile resolved
FacultySubmitRedirect == Nav("handleSubmit", "replace", "/faculty/dashboard", "")

\* lines 131-148: createFacultyProfile resolves or rejects; a rejection is
\* caught and shown, a resolution navigates
SubmitFacultyProfile(outcome, message) ==
    /\ page = "signup"
    /\ su.pc = "createFacultyProfile"
    /\ calls' = Settle(calls, "handleSubmit", outcome)
    /\ su' = [su EXCEPT !.pc = "done", !.form = EmptyForm]
    /\ IF outcome = "throw"
       THEN /\ suError' = CatchMessage(message)
            /\ navs' = navs
            /\ profiles' = profiles
       ELSE /\ suError' = suError
            /\ navs' = Append(navs, FacultySubmitRedirect)
            /\ profiles' = CreateProfile(profiles, su.form.email, "faculty")
    /\ suIsLoading' = FALSE
    /\ UNCHANGED <<page, localUserType, cb, suUserType, chk, lg, lgActiveTab,
                   lgIsRegister, lgError, lgIsLoading>>
    /\ UNCHANGED <<home, dashVars>>

---------------------------------------------------------------------------
(* LoginPage: the role tabs, the register toggle and handleManualAuth *)

MountLogin ==
    /\ Idle
    /\ page' = "login"
    /\ lg' = lgInit /\ lgActiveTab' = "student" /\ lgIsRegister' = FALSE
    /\ lgError' = "" /\ lgIsLoading' = FALSE
    /\ calls' = <<>>
    /\ navs' = <<>>
    /\ CallbackUnmounted(cb')
    /\ SignupUnmounted(su', suUserType', suError', suIsLoading', chk')
    /\ UNCHANGED <<localUserType, profiles>>
    /\ HomeUnmounted(home')
    /\ UNCHANGED dashVars

\* line 131: the role tabs
SetActiveTab(value) ==
    /\ page = "login"
    /\ ~Navigated
    /\ lgActiveTab # value
    /\ lgActiveTab' = value
    /\ UNCHANGED <<page, localUserType, profiles, calls, navs, cb, su, suUserType,
                   suError, suIsLoading, chk, lg, lgIsRegister, lgError,
                   lgIsLoading>>
    /\ UNCHANGED <<home, dashVars>>

\* lines 188, 286: the register / login toggle
ToggleRegister ==
    /\ page = "login"
    /\ ~Navigated
    /\ lgIsRegister' = ~lgIsRegister
    /\ UNCHANGED <<page, localUserType, profiles, calls, navs, cb, su, suUserType,
                   suError, suIsLoading, chk, lg, lgActiveTab, lgError,
                   lgIsLoading>>
    /\ UNCHANGED <<home, dashVars>>

\* lines 66-76, 84-87: submit; the button is disabled while isLoading.  The
\* closure holds the isRegister and activeTab of the render it was created in.
HandleManualAuth(email, password) ==
    /\ page = "login"
    /\ ~Navigated
    /\ ~lgIsLoading
    /\ lgIsLoading' = TRUE
    /\ lgError' = ""
    /\ lg' = [pc |-> IF lgIsRegister THEN "signUp" ELSE "signIn",
              isRegister |-> lgIsRegister, activeTab |-> lgActiveTab]
    /\ calls' = <<Call("handleManualAuth",
                       IF lgIsRegister THEN "signUp" ELSE "signInWithPassword",
                       Args(email, Undefined, Undefined, Undefined))>>
    /\ UNCHANGED <<page, localUserType, profiles, navs, cb, su, suUserType,
                   suError, suIsLoading, chk, lgActiveTab, lgIsRegister>>
    /\ UNCHANGED <<home, dashVars>>

\* lines 73-81, 95-99: signUp returns or throws; no profile call follows
ManualSignUp(outcome, message) ==
    /\ page = "login"
    /\ lg.pc = "signUp"
    /\ calls' = Settle(calls, "handleManualAuth", outcome)
    /\ lg' = [lg EXCEPT !.pc = "done"]
    /\ lgError' = CASE outcome = "ok" -> "Check your email for a confirmation link."
                    [] outcome = "error" -> message
                    [] outcome = "throw" -> "Something went wrong. Please try again."
    /\ lgIsLoading' = FALSE
    /\ UNCHANGED <<page, localUserType, profiles, navs, cb, su, suUserType,
                   suError, suIsLoading, chk, lgActiveTab, lgIsRegister>>
    /\ UNCHANGED <<home, dashVars>>

\* line 92 reading the tab selected when the response arrives
LoginRedirectCurrentTab(activeTab) ==
    Nav("handleManualAuth", "push",
        IF lgActiveTab = "faculty" THEN "/faculty/dashboard" ELSE "/student/dashboard",
        "")

\* line 92: the landing of a password login, by the tab of the submission
LoginRedirect(activeTab) ==
    Nav("handleManualAuth", "push",
        IF activeTab = "faculty" THEN "/faculty/dashboard" ELSE "/student/dashboard",
        "")

\* lines 84-99 without the finally block of lines 97-99
ManualSignInNoFinally(outcome, message) ==
    /\ page = "login"
    /\ lg.pc = "signIn"
    /\ calls' = Settle(calls, "handleManualAuth",
                       IF outcome \in {"session", "nosession"} THEN "ok" ELSE outcome)
    /\ lg' = [lg EXCEPT !.pc = "done"]
    /\ lgError' = CASE outcome = "error" -> message
                    [] outcome = "throw" -> "Something went wrong. Please try again."
                    [] OTHER -> lgError
    /\ navs' = IF outcome = "session" THEN Append(navs, LoginRedirect(lg.activeTab))
               ELSE navs
    /\ lgIsLoading' = lgIsLoading
    /\ UNCHANGED <<page, localUserType, profiles, cb, su, suUserType, suError,
                   suIsLoading, chk, lgActiveTab, lgIsRegister>>
    /\ UNCHANGED <<home, dashVars>>

\* lines 84-99: signInWithPassword returns an error, a session, neither, or
\* throws
ManualSignIn(outcome, message) ==
    /\ page = "login"
    /\ lg.pc = "signIn"
    /\ calls' = Settle(calls, "handleManualAuth",
                       IF outcome \in {"session", "nosession"} THEN "ok" ELSE outcome)
    /\ lg' = [lg EXCEPT !.pc = "done"]
    /\ lgError' = CASE outcome = "error" -> message
                    [] outcome = "throw" -> "Something went wrong. Please try again."
                    [] OTHER -> lgError
    /\ navs' = IF outcome = "session" THEN Append(navs, LoginRedirect(lg.activeTab))
               ELSE navs
    /\ lgIsLoading' = FALSE
    /\ UNCHANGED <<page, localUserType, profiles, cb, su, suUserType, suError,
                   suIsLoading, chk, lgActiveTab, lgIsRegister>>
    /\ UNCHANGED <<home, dashVars>>

---------------------------------------------------------------------------
(* HomePage: the routing effect, run on mount and when the session changes *)

\* what useSession() can report: the status and the session's user
HomeStates ==
    {<<"loading", Null>>, <<"authenticated", UserEmail>>, <<"unauthenticated", Null>>}

\* lines 11-20: nothing while loading; with a user every role lands on the
\* student dashboard, without one on /login
HomeEffect(status, session) ==
    IF status = "loading" THEN <<>>
    ELSE IF session # Null
         THEN <<Nav("HomePage", "push", "/student/dashboard", "")>>
         ELSE <<Nav("HomePage", "push", "/login", "")>>

\* lines 7-20: the first render and its effect
MountHome(status, session) ==
    /\ Idle
    /\ page' = "home"
    /\ home' = [status |-> status, session |-> session]
    /\ calls' = <<>>
    /\ navs' = HomeEffect(status, session)
    /\ CallbackUnmounted(cb')
    /\ SignupUnmounted(su', suUserType', suError', suIsLoading', chk')
    /\ LoginUnmounted(lg', lgActiveTab', lgIsRegister', lgError', lgIsLoading')
    /\ UNCHANGED <<localUserType, profiles>>
    /\ UNCHANGED dashVars

\* lines 11-20: the session has loaded and the effect runs again
HomeSessionChange(status, session) ==
    /\ page = "home"
    /\ ~Navigated
    /\ home.status = "loading"
    /\ status # "loading"
    /\ home' = [status |-> status, session |-> session]
    /\ navs' = navs \o HomeEffect(status, session)
    /\ UNCHANGED <<page, localUserType, profiles, calls, cb, su, suUserType,
                   suError, suIsLoading, chk, lg, lgActiveTab, lgIsRegister,
                   lgError, lgIsLoading>>
    /\ UNCHANGED dashVars

---------------------------------------------------------------------------
(* StudentDashboard: values *)

\* bounds of the model
MaxRows == 2
MaxBoard == 2
MaxAuthChanges == 1

\* the sequences over S of length at most n
SeqsUpTo(S, n) == UNION {[1..k -> S] : k \in 0..n}

StudentIds == {"u1", "u2"}

\* JavaScript numbers and null as scores: an integer, NaN, an infinity or null
Num(v) == [kind |-> "number", num |-> v, den |-> 1]
NaN == [kind |-> "NaN", num |-> 0, den |-> 0]
Infinity(sign) == [kind |-> "Infinity", num |-> sign, den |-> 0]
JsNull == [kind |-> "null", num |-> 0, den |-> 1]

\* a / b for integers a and b >= 0, before rounding: 0/0 is NaN
Divide(a, b) ==
    IF b # 0 THEN [kind |-> "number", num |-> a, den |-> b]
    ELSE IF a = 0 THEN NaN
    ELSE Infinity(IF a > 0 THEN 1 ELSE -1)

\* Math.round: the nearest integer, halves towards +Infinity; NaN and the
\* infinities are returned unchanged
MathRound(x) ==
    IF x.kind = "number" THEN Num((2 * x.num + x.den) \div (2 * x.den)) ELSE x

\* the score column of a quiz_results row
Scores == {JsNull} \cup {Num(v) : v \in 0..2}

\* a quiz_results row as fetchAnalytics reads it
ResultRows == [score : Scores, status : {"completed", "pending"}]

\* a students row: the profile of student id
Profile(id) ==
    [id |-> id,
     department |-> IF id = "u1" THEN "CS" ELSE "EE",
     section |-> IF id = "u1" THEN "A" ELSE "B"]

\* a null studentProfile
NoProfile == [id |-> Null, department |-> Null, section |-> Null]

Request(kind, id, department, section) ==
    [kind |-> kind, user |-> id, department |-> department, section |-> section]

\* bag union and difference with a single request
Issue(bag, requests) == bag (+) SetToBag(requests)
Answer(bag, request) == bag (-) SetToBag({request})

\* what a table read resolves to: null data, or one of the given row lists
Responses(rowLists) ==
    {[isNull |-> TRUE, rows |-> <<>>]} \cup {[isNull |-> FALSE, rows |-> r] : r \in rowLists}

\* tables whose every read fails
NoBackend ==
    [noProfile |-> TRUE,
     results |-> [isNull |-> TRUE, rows |-> <<>>],
     classmates |-> [isNull |-> TRUE, rows |-> <<>>],
     leaderboard |-> [isNull |-> TRUE, rows |-> <<>>],
     analytics |-> [isNull |-> TRUE, rows |-> <<>>]]

\* line 426: the initial analytics
analyticsInit == [averageScore |-> Num(0), totalQuizzes |-> 0, completed |-> 0]

\* lines 421-426: the initial values of the dashboard's useState calls
DashUnmounted ==
    /\ dashMounted = FALSE
    /\ user = Null /\ loading = TRUE
    /\ quizResults = <<>> /\ loadingData = TRUE /\ studentProfile = NoProfile
    /\ classmates = <<>> /\ leaderboard = <<>> /\ analytics = analyticsInit
    /\ analyticsData = [isNull |-> TRUE, rows |-> <<>>]
    /\ pending = EmptyBag /\ dashNavs = <<>> /\ authChanges = 0

Init ==
    /\ page = "none"
    /\ localUserType \in LocalValues
    /\ profiles = EmptyBag
    /\ calls = <<>>
    /\ navs = <<>>
    /\ Unmounted
    /\ DashUnmounted
    /\ backend = NoBackend

---------------------------------------------------------------------------
(* StudentDashboard: computations *)

RECURSIVE SumScores(_)
\* reduce((sum, q) => sum + (q.score || 0), 0)
SumScores(rows) ==
    IF rows = <<>> THEN 0
    ELSE LET q == rows[1]
         IN  (IF q.score.kind = "number" THEN q.score.num ELSE 0) + SumScores(Tail(rows))

\* data.filter(q => q.score !== null)
Scored(data) == SelectSeq(data, LAMBDA q : q.score # JsNull)

\* line 495 dividing by the number of rows
AverageDivisorAllRows(data) == Len(data)

\* the divisor of the average, line 495
AverageDivisor(data) == Len(Scored(data))

\* lines 494-496: averageScore
AverageScore(data) ==
    IF Len(data) > 0
    THEN MathRound(Divide(SumScores(Scored(data)), AverageDivisor(data)))
    ELSE Num(0)

\* line 493: completed
Completed(data) == Len(SelectSeq(data, LAMBDA q : q.status = "completed"))

\* Array.prototype.findIndex on the rows' ids: the 0-based index of the first
\* match, -1 without a match
FindIndex(rows, id) ==
    IF \E i \in 1..Len(rows) : rows[i] = id
    THEN (CHOOSE i \in 1..Len(rows) :
             rows[i] = id /\ \A j \in 1..(i - 1) : rows[j] # id) - 1
    ELSE -1

\* line 520 without the + 1: findIndex(...) || 1
ClassRankNoOffset(rows, id) ==
    LET rank == FindIndex(rows, id)
    IN  IF rank = 0 THEN 1 ELSE rank

\* line 520: leaderboard.findIndex(l => l.id === user.id) + 1 || 1
ClassRank(rows, id) ==
    LET rank == FindIndex(rows, id) + 1
    IN  IF rank = 0 THEN 1 ELSE rank

---------------------------------------------------------------------------
(* StudentDashboard: effects and responses *)

\* data || [] for a response whose data is null or the rows
OrEmpty(isNull, rows) == IF isNull THEN <<>> ELSE rows

\* lines 428-433: the guard effect, run when user or loading changed
GuardEffect(isLoading, id) ==
    IF ~isLoading /\ id = Null
    THEN <<Nav("StudentDashboard", "push", "/login", "")>>
    ELSE <<>>

\* lines 435-461, 485-501: the reads the three [user] effects issue
UserEffects(id) ==
    IF id # Null
    THEN {Request("profile", id, Undefined, Undefined),
          Request("results", id, Undefined, Undefined),
          Request("analytics", id, Undefined, Undefined)}
    ELSE {}

\* lines 463-483 without the tests of studentProfile
ProfileEffectUngated(profile) ==
    {Request("classmates", Undefined, profile.department, profile.section)}

\* lines 463-483: the [studentProfile] effect issues the roster read
ProfileEffect(profile) ==
    IF profile # NoProfile
    THEN {Request("classmates", Undefined, profile.department, profile.section)}
    ELSE {}

\* the states useAuth() can report
AuthStates == {<<TRUE, Null>>} \cup {<<FALSE, id>> : id \in {Null} \cup StudentIds}

\* the first render and its effects
DashMount(isLoading, id) ==
    /\ ~dashMounted /\ dashNavs = <<>>
    /\ dashMounted' = TRUE
    /\ loading' = isLoading
    /\ user' = id
    /\ pending' = Issue(EmptyBag, UserEffects(id))
    /\ loadingData' = TRUE
    /\ dashNavs' = GuardEffect(isLoading, id)
    /\ UNCHANGED <<quizResults, studentProfile, classmates, leaderboard,
                   analytics, analyticsData, authChanges>>
    /\ UNCHANGED <<backend, authVars>>

\* the dashboard is mounted; after the push to /login it stays so until the
\* route change completes
DashLive == dashMounted

\* a state setter: without effect once the component is unmounted
SetState(new, old) == IF dashMounted THEN new ELSE old

\* the route change that follows the push to /login completes
DashUnmount ==
    /\ dashMounted
    /\ dashNavs # <<>>
    /\ dashMounted' = FALSE
    /\ UNCHANGED <<user, loading, quizResults, loadingData, studentProfile,
                   classmates, leaderboard, analytics, analyticsData, pending,
                   dashNavs, authChanges>>
    /\ UNCHANGED <<backend, authVars>>

\* the auth context reports a new state; the effects that depend on what
\* changed run again
AuthChange(isLoading, id) ==
    /\ DashLive
    /\ authChanges < MaxAuthChanges
    /\ <<isLoading, id>> # <<loading, user>>
    /\ loading' = isLoading
    /\ user' = id
    /\ authChanges' = authChanges + 1
    /\ dashNavs' = dashNavs \o GuardEffect(isLoading, id)
    /\ pending' = IF id # user THEN Issue(pending, UserEffects(id)) ELSE pending
    /\ loadingData' = IF id # user /\ id # Null THEN TRUE ELSE loadingData
    /\ UNCHANGED <<dashMounted, quizResults, studentProfile, classmates,
                   leaderboard, analytics, analyticsData>>
    /\ UNCHANGED <<backend, authVars>>

\* lines 438-443, 463-482: the profile read returns (null without a row or
\* on an error); a new non-null profile starts the roster read
ProfileResponse(request, isNull) ==
    /\ BagIn(request, pending) /\ request.kind = "profile"
    /\ LET data == IF isNull THEN NoProfile ELSE Profile(request.user)
       IN  /\ studentProfile' = SetState(data, studentProfile)
           /\ pending' = Issue(Answer(pending, request),
                               IF dashMounted THEN ProfileEffect(data) ELSE {})
    /\ UNCHANGED <<dashMounted, user, loading, quizResults, loadingData,
                   classmates, leaderboard, analytics, analyticsData, dashNavs,
                   authChanges>>
    /\ UNCHANGED <<backend, authVars>>

\* lines 452-458: the results read returns
ResultsResponse(request, isNull, rows) ==
    /\ BagIn(request, pending) /\ request.kind = "results"
    /\ quizResults' = SetState(OrEmpty(isNull, rows), quizResults)
    /\ loadingData' = SetState(FALSE, loadingData)
    /\ pending' = Answer(pending, request)
    /\ UNCHANGED <<dashMounted, user, loading, studentProfile, classmates,
                   leaderboard, analytics, analyticsData, dashNavs, authChanges>>
    /\ UNCHANGED <<backend, authVars>>

\* lines 467-479: the roster read returns and the leaderboard read follows,
\* whether the component is still mounted or not
ClassmatesResponse(request, isNull, rows) ==
    /\ BagIn(request, pending) /\ request.kind = "classmates"
    /\ classmates' = SetState(OrEmpty(isNull, rows), classmates)
    /\ pending' = Issue(Answer(pending, request),
                        {Request("leaderboard", Undefined, request.department,
                                 request.section)})
    /\ UNCHANGED <<dashMounted, user, loading, quizResults, loadingData,
                   studentProfile, leaderboard, analytics, analyticsData, dashNavs,
                   authChanges>>
    /\ UNCHANGED <<backend, authVars>>

\* lines 474-480: the leaderboard read returns
LeaderboardResponse(request, isNull, rows) ==
    /\ BagIn(request, pending) /\ request.kind = "leaderboard"
    /\ leaderboard' = SetState(OrEmpty(isNull, rows), leaderboard)
    /\ pending' = Answer(pending, request)
    /\ UNCHANGED <<dashMounted, user, loading, quizResults, loadingData,
                   studentProfile, classmates, analytics, analyticsData, dashNavs,
                   authChanges>>
    /\ UNCHANGED <<backend, authVars>>

\* lines 492-498: the analytics computed from the rows
Analytics(data) ==
    [averageScore |-> AverageScore(data), totalQuizzes |-> Len(data),
     completed |-> Completed(data)]

\* lines 488-498 with totalQuizzes taken from the quizResults state
AnalyticsResponseFromResults(request, isNull, data) ==
    /\ BagIn(request, pending) /\ request.kind = "analytics"
    /\ analyticsData' = [isNull |-> isNull, rows |-> data]
    /\ analytics' = IF ~isNull
                    THEN SetState([Analytics(data) EXCEPT !.totalQuizzes = Len(quizResults)],
                                  analytics)
                    ELSE analytics
    /\ pending' = Answer(pending, request)
    /\ UNCHANGED <<dashMounted, user, loading, quizResults, loadingData,
                   studentProfile, classmates, leaderboard, dashNavs, authChanges>>
    /\ UNCHANGED <<backend, authVars>>

\* lines 488-498 without the test of line 492: null data counts as no rows
AnalyticsResponseUnguarded(request, isNull, data) ==
    /\ BagIn(request, pending) /\ request.kind = "analytics"
    /\ analyticsData' = [isNull |-> isNull, rows |-> data]
    /\ analytics' = SetState(Analytics(OrEmpty(isNull, data)), analytics)
    /\ pending' = Answer(pending, request)
    /\ UNCHANGED <<dashMounted, user, loading, quizResults, loadingData,
                   studentProfile, classmates, leaderboard, dashNavs, authChanges>>
    /\ UNCHANGED <<backend, authVars>>

\* lines 488-498: the analytics read returns; null data leaves the state
AnalyticsResponse(request, isNull, data) ==
    /\ BagIn(request, pending) /\ request.kind = "analytics"
    /\ analyticsData' = [isNull |-> isNull, rows |-> data]
    /\ analytics' = IF ~isNull THEN SetState(Analytics(data), analytics) ELSE analytics
    /\ pending' = Answer(pending, request)
    /\ UNCHANGED <<dashMounted, user, loading, quizResults, loadingData,
                   studentProfile, classmates, leaderboard, dashNavs, authChanges>>
    /\ UNCHANGED <<backend, authVars>>

\* line 520: the rank the dashboard renders
classRank == ClassRank(leaderboard, user)

\* lines 503-513: the dashboard renders its statistics
Rendering == dashMounted /\ ~loading /\ ~loadingData /\ user # Null

---------------------------------------------------------------------------
(* The specification of the authentication flows *)

\* what getSession() resolves to: data.session and error
Sessions == {Null, UserEmail}
SessionErrors == {Null} \cup ErrMsgs

Next ==
    \/ MountCallback
    \/ \E session \in Sessions, error \in SessionErrors : HandleAuthSession(session, error)
    \/ \E rpcError \in {Null} \cup ErrMsgs : HandleAuthRpc(rpcError)
    \/ \E param \in {Null} \cup Roles : MountSignup(param)
    \/ \E session \in Sessions : CheckAuthSession(session)
    \/ \E failed \in BOOLEAN : CheckAuthProfile(failed)
    \/ \E value \in Roles : SetUserType(value)
    \/ \E form \in FormData : HandleSubmit(form)
    \/ \E message \in ErrMsgs : SubmitSignUp("ok", message) \/ SubmitSignUp("error", message)
    \/ \E message \in ThrowMsgs : SubmitSignUp("throw", message)
    \/ \E rpcError \in {Null} \cup ErrMsgs : SubmitStudentRpc(rpcError)
    \/ \E message \in ThrowMsgs : SubmitFacultyProfile("ok", message) \/ SubmitFacultyProfile("throw", message)
    \/ MountLogin
    \/ \E value \in Roles : SetActiveTab(value)
    \/ ToggleRegister
    \/ \E email \in FieldValues(UserEmail), password \in FieldValues("pw") :
          HandleManualAuth(email, password)
    \/ \E message \in ErrMsgs : ManualSignUp("ok", message) \/ ManualSignUp("error", message)
    \/ ManualSignUp("throw", Undefined)
    \/ \E outcome \in {"session", "nosession", "error"}, message \in ErrMsgs :
          ManualSignIn(outcome, message)
    \/ ManualSignIn("throw", Undefined)
    \/ \E h \in HomeStates : MountHome(h[1], h[2])
    \/ \E h \in HomeStates : HomeSessionChange(h[1], h[2])

Spec == Init /\ [][Next]_vars

\* every remote call of the callback eventually returns
LiveSpec ==
    /\ Spec
    /\ WF_vars(\E session \in Sessions, error \in SessionErrors :
                  HandleAuthSession(session, error))
    /\ WF_vars(\E rpcError \in {Null} \cup ErrMsgs : HandleAuthRpc(rpcError))

---------------------------------------------------------------------------
(* The specifications of the student dashboard *)

Requests == BagToSet(pending)

\* the dashboard is the only view of these specifications
DashInit == Init /\ localUserType = Null

\* The statistics of the dashboard: any leaderboard of at most MaxBoard rows
\* and any list of at most MaxRows result rows, with a settled auth state.
StatsNext ==
    \/ \E auth \in AuthStates : DashMount(auth[1], auth[2])
    \/ DashUnmount
    \/ \E request \in Requests, isNull \in BOOLEAN : ProfileResponse(request, isNull)
    \/ \E request \in Requests : \E r \in Responses({<<>>, <<request.user>>}) :
          ResultsResponse(request, r.isNull, r.rows)
    \/ \E request \in Requests, r \in Responses({<<>>, <<"u1", "u2">>}) :
          ClassmatesResponse(request, r.isNull, r.rows)
    \/ \E request \in Requests, r \in Responses(SeqsUpTo(StudentIds, MaxBoard)) :
          LeaderboardResponse(request, r.isNull, r.rows)
    \/ \E request \in Requests, r \in Responses(SeqsUpTo(ResultRows, MaxRows)) :
          AnalyticsResponse(request, r.isNull, r.rows)

StatsSpec == DashInit /\ [][StatsNext]_vars

\* sample result rows and leaderboards for the dashboard's control flow
SampleResults ==
    {<<>>, <<[score |-> JsNull, status |-> "pending"]>>,
     <<[score |-> Num(1), status |-> "completed"]>>}
SampleBoards == {<<>>, <<"u2", "u1">>}

\* The control flow of the dashboard: the auth state changes while reads are
\* in flight.
DashNext ==
    \/ \E auth \in AuthStates : DashMount(auth[1], auth[2])
    \/ DashUnmount
    \/ \E auth \in AuthStates : AuthChange(auth[1], auth[2])
    \/ \E request \in Requests, isNull \in BOOLEAN : ProfileResponse(request, isNull)
    \/ \E request \in Requests : \E r \in Responses({<<>>, <<request.user>>}) :
          ResultsResponse(request, r.isNull, r.rows)
    \/ \E request \in Requests, r \in Responses({<<>>, <<"u1", "u2">>}) :
          ClassmatesResponse(request, r.isNull, r.rows)
    \/ \E request \in Requests, r \in Responses(SampleBoards) :
          LeaderboardResponse(request, r.isNull, r.rows)
    \/ \E request \in Requests, r \in Responses(SampleResults) :
          AnalyticsResponse(request, r.isNull, r.rows)

DashSpec == DashInit /\ [][DashNext]_vars

\* The two guarded views: the home page, and the dashboard it leads to, with
\* the auth state changing while reads are in flight.
GuardNext ==
    \/ /\ ~dashMounted /\ dashNavs = <<>>
       /\ \E h \in HomeStates : MountHome(h[1], h[2])
    \/ /\ ~dashMounted
       /\ \E h \in HomeStates : HomeSessionChange(h[1], h[2])
    \/ DashNext

GuardSpec == DashInit /\ [][GuardNext]_vars

\* the contents the tables can have: whether the students row of the user is
\* missing, and what each of the other reads resolves to
Backends ==
    [noProfile : BOOLEAN,
     results : Responses({<<"q1">>}),
     classmates : Responses({<<"u1", "u2">>}),
     leaderboard : Responses(SampleBoards),
     analytics : Responses(SampleResults)]

OrderInit ==
    /\ page = "none"
    /\ localUserType = Null
    /\ profiles = EmptyBag
    /\ calls = <<>>
    /\ navs = <<>>
    /\ Unmounted
    /\ DashUnmounted
    /\ backend \in Backends

\* The reads of the dashboard against fixed tables: every read resolves to
\* what the tables hold, in any order.
OrderNext ==
    \/ \E auth \in AuthStates : DashMount(auth[1], auth[2])
    \/ DashUnmount
    \/ \E request \in Requests : ProfileResponse(request, backend.noProfile)
    \/ \E request \in Requests :
          ResultsResponse(request, backend.results.isNull, backend.results.rows)
    \/ \E request \in Requests :
          ClassmatesResponse(request, backend.classmates.isNull, backend.classmates.rows)
    \/ \E request \in Requests :
          LeaderboardResponse(request, backend.leaderboard.isNull, backend.leaderboard.rows)
    \/ \E request \in Requests :
          AnalyticsResponse(request, backend.analytics.isNull, backend.analytics.rows)

OrderSpec == OrderInit /\ [][OrderNext]_vars

---------------------------------------------------------------------------
(* Properties of the OAuth callback *)

\* the remote calls and the navigations of one handler
CallsBy(by) == SelectSeq(calls, LAMBDA c : c.by = by)
NavsBy(by) == SelectSeq(navs, LAMBDA n : n.by = by)

ProfileRpcs == {"create_student_profile", "create_faculty_profile"}
ProfileCallsBy(by) == SelectSeq(calls, LAMBDA c : c.by = by /\ c.fn \in ProfileRpcs)

DashboardPaths == {"/student/dashboard", "/faculty/dashboard"}

\* handleAuth has read the response of getSession
SessionRead == page = "callback" /\ cb.pc \in {"unauthenticated", "provisioning", "routed"}

\* C1: a callback run whose session fetch yields no session navigates to
\* /login (once), issues neither create_student_profile nor
\* create_faculty_profile and navigates to no dashboard, whatever the stored
\* role is.
C1_NoSessionGoesToLogin ==
    (SessionRead /\ cb.session = Null) =>
        /\ cb.pc = "unauthenticated"
        /\ Len(navs) = 1 /\ navs[1].path = "/login"
        /\ ProfileCallsBy("handleAuth") = <<>>
        /\ \A i \in DOMAIN navs : navs[i].path \notin DashboardPaths

\* a run without session and without error, with the role "faculty" stored
C1_Witness ==
    /\ page = "callback" /\ cb.pc = "unauthenticated"
    /\ cb.session = Null /\ cb.error = Null
    /\ localUserType = "faculty"

\* C7: the callback takes the role from the local "userType" preference only:
\* it provisions and routes as "faculty" exactly when the stored value is
\* "faculty", whatever profiles the identity has; an identity with a faculty
\* profile and the stored value "student" gets create_student_profile and
\* /student/dashboard.
C7_RoleFromLocalPreference ==
    (page = "callback" /\ cb.pc = "routed") =>
        LET role == IF localUserType = "faculty" THEN "faculty" ELSE "student"
            rpcs == ProfileCallsBy("handleAuth")
        IN  /\ Len(rpcs) = 1
            /\ rpcs[1].fn = RpcName(role)
            /\ rpcs[1].args.user_email = cb.email
            /\ navs = <<Nav("handleAuth", "replace", DashboardPath(role), "")>>
            /\ (BagIn(<<cb.email, "faculty">>, profiles) /\ localUserType = "student") =>
                   /\ rpcs[1].fn = "create_student_profile"
                   /\ navs[1].path = "/student/dashboard"

\* the identity has a faculty profile, the stored role is "student"
C7_Witness ==
    /\ page = "callback" /\ cb.pc = "routed"
    /\ BagIn(<<cb.email, "faculty">>, profiles)
    /\ localUserType = "student"
    /\ navs[1].path = "/student/dashboard"

C9_Terminal == cb.pc \in {"routed", "unauthenticated"}

\* C9: if every remote call returns, a callback run started on mount reaches
\* routed or unauthenticated; it has navigated exactly once there and not at
\* all before, and it leaves the terminal state only by a new mount.
C9_CallbackTerminates ==
    /\ (cb.pc = "checking-session") ~> C9_Terminal
    /\ [](C9_Terminal => Len(navs) = 1)
    /\ [](cb.pc \in {"checking-session", "provisioning"} => navs = <<>>)
    /\ [][C9_Terminal => \/ (cb' = cb /\ navs' = navs)
                         \/ MountCallback
                         \/ cb'.pc = "idle"]_vars

\* a run that went through provisioning and was routed
C9_Witness ==
    /\ page = "callback" /\ cb.pc = "routed"
    /\ Len(CallsBy("handleAuth")) = 2 /\ Len(navs) = 1

\* C10: a session fetch that returns an error is handled like an absent
\* session, also when a session comes with it: the run navigates to /login,
\* issues no provisioning call and fetches the session only once.
C10_SessionErrorGoesToLogin ==
    (SessionRead /\ cb.error # Null) =>
        /\ cb.pc = "unauthenticated"
        /\ navs = <<Nav("handleAuth", "replace", "/login", "error=auth")>>
        /\ ProfileCallsBy("handleAuth") = <<>>
        /\ Len(SelectSeq(calls, LAMBDA c : c.fn = "getSession")) = 1

\* the response carried an error and a session
C10_Witness ==
    /\ page = "callback" /\ cb.pc = "unauthenticated"
    /\ cb.error # Null /\ cb.session = UserEmail

---------------------------------------------------------------------------
(* Properties of the sign-up and login submissions *)

CallsIn(log, by) == SelectSeq(log, LAMBDA c : c.by = by)

\* the signUp call of the handler returned without error
SignUpSucceeded(by) ==
    \E i \in DOMAIN calls :
        calls[i].by = by /\ calls[i].fn = "signUp" /\ calls[i].result = "ok"

\* a profile-creation call of the handler returned an error
ProfileRpcFailed(by) ==
    \E i \in DOMAIN calls :
        calls[i].by = by /\ calls[i].fn \in ProfileRpcs /\ calls[i].result = "error"

\* C2: after every successful signUp, of the sign-up page or of the login
\* page's register mode, the handler has issued exactly one profile-creation
\* call, the one of the role selected at submission.
C2_OneProfileCallPerSignUp ==
    /\ (page = "signup" /\ su.pc = "done" /\ SignUpSucceeded("handleSubmit")) =>
           LET rpcs == ProfileCallsBy("handleSubmit")
           IN  Len(rpcs) = 1 /\ rpcs[1].fn = RpcName(su.userType)
    /\ (page = "login" /\ lg.pc = "done" /\ SignUpSucceeded("handleManualAuth")) =>
           LET rpcs == ProfileCallsBy("handleManualAuth")
           IN  Len(rpcs) = 1 /\ rpcs[1].fn = RpcName(lg.activeTab)

\* the faculty submission of the sign-up page is past its validation
C6_Submitted ==
    page = "signup" /\ su.userType = "faculty" /\ su.pc \in {"createFacultyProfile", "done"}

C6_State ==
    C6_Submitted =>
        LET cs == CallsBy("handleSubmit")
            ns == NavsBy("handleSubmit")
        IN  /\ Len(cs) <= 1
            /\ \A i \in DOMAIN cs : cs[i].fn = "create_faculty_profile"
            /\ su.pc = "createFacultyProfile" =>
                   /\ Len(cs) = 1
                   /\ cs[1].args.user_email = su.form.email
                   /\ cs[1].args.department = su.form.department
                   /\ cs[1].args.section = su.form.section
                   /\ cs[1].args.username = su.form.username
                   /\ ns = <<>>
            /\ (su.pc = "done" /\ Len(cs) = 1 /\ cs[1].result = "ok") =>
                   ns = <<Nav("handleSubmit", "replace", "/faculty/dashboard", "")>>
            /\ (su.pc = "done" /\ (Len(cs) = 0 \/ cs[1].result # "ok")) => ns = <<>>

C6_Step ==
    /\ (page = "signup" /\ suUserType = "faculty" /\ su.pc \in {"idle", "done"} /\ su' # su) =>
          \A form \in FormData :
              (/\ form.department # "" /\ form.section # "" /\ form.username # ""
               /\ HandleSubmit(form))
              => (su'.pc = "createFacultyProfile" /\ su'.form = form)
    /\ su.pc = "createFacultyProfile" =>
          \A i \in DOMAIN CallsIn(calls, "handleSubmit") :
              CallsIn(calls', "handleSubmit")[i].args = CallsIn(calls, "handleSubmit")[i].args

C8_ProvisioningFailureNonFatal ==
    /\ (page = "callback" /\ cb.pc = "routed" /\ ProfileRpcFailed("handleAuth")) =>
           /\ Len(navs) = 1
           /\ navs[1].path = DashboardPath(cb.userType)
    /\ (page = "signup" /\ su.pc = "done" /\ ProfileRpcFailed("handleSubmit")) =>
           \E i \in DOMAIN navs :
               navs[i].by = "handleSubmit" /\ navs[i].path = DashboardPath(su.userType)

---------------------------------------------------------------------------
(* Properties of the dashboard's statistics *)

\* C3: with the user's id first found at 0-based index k of the leaderboard
\* the rank is k + 1; with no row of the user (the empty leaderboard
\* included) it is 1.
C3_ClassRank ==
    (dashMounted /\ user # Null) =>
        /\ \A k \in 0..(Len(leaderboard) - 1) :
               (/\ leaderboard[k + 1] = user
                /\ \A j \in 0..(k - 1) : leaderboard[j + 1] # user)
               => classRank = k + 1
        /\ (\A i \in DOMAIN leaderboard : leaderboard[i] # user) => classRank = 1

\* the user is the second row of the rendered leaderboard
C3_Witness ==
    /\ Rendering /\ user = "u1"
    /\ leaderboard = <<"u2", "u1">>
    /\ classRank = 2

\* the rows with a score, and the total of their scores
ScoredRows(rows) == {i \in DOMAIN rows : rows[i].score.kind # "null"}

RECURSIVE TotalScore(_, _)
TotalScore(rows, n) ==
    IF n = 0 THEN 0
    ELSE TotalScore(rows, n - 1) + (IF n \in ScoredRows(rows) THEN rows[n].score.num ELSE 0)

\* C4: with M >= 1 scored rows among the fetched rows, averageScore is the
\* integer nearest to (sum of the scores) / M, a half rounding up: rows
\* without a score count neither in the sum nor in M.
C4_AverageScore ==
    LET rows == analyticsData.rows
        M == Cardinality(ScoredRows(rows))
        S == TotalScore(rows, Len(rows))
        avg == analytics.averageScore
    IN  (~analyticsData.isNull /\ M >= 1) =>
            /\ avg.kind = "number" /\ avg.den = 1
            /\ 2 * avg.num * M - M <= 2 * S
            /\ 2 * S < 2 * avg.num * M + M

\* two rows, one of them without a score: the average is the other's score
C4_Witness ==
    /\ ~analyticsData.isNull
    /\ Len(analyticsData.rows) = 2
    /\ analyticsData.rows[1].score = JsNull
    /\ analyticsData.rows[2].score = Num(2)
    /\ analytics.averageScore = Num(2)

\* C5: with no scored row among the fetched rows, none fetched or all scores
\* null, averageScore is 0.
C5_AverageOfNoScores ==
    (~analyticsData.isNull /\ ScoredRows(analyticsData.rows) = {}) =>
        analytics.averageScore = Num(0)

---------------------------------------------------------------------------
(* Properties of the remote calls and of failed authentication *)

\* C11: every create_student_profile or create_faculty_profile call the
\* application has issued, from the sign-up page or from the callback, passes
\* all four arguments: email, department, section and username.
C11_AllFourArguments ==
    \A i \in DOMAIN calls :
        calls[i].fn \in ProfileRpcs =>
            /\ calls[i].args.user_email # Undefined
            /\ calls[i].args.department # Undefined
            /\ calls[i].args.section # Undefined
            /\ calls[i].args.username # Undefined

AuthCalls == {"signUp", "signInWithPassword"}

\* the authentication call of the handler returned an error or threw
AuthCallFailed(by) ==
    \E i \in DOMAIN calls :
        calls[i].by = by /\ calls[i].fn \in AuthCalls /\ calls[i].result \in {"error", "throw"}

\* C12: after signInWithPassword or signUp returned an error or threw, the
\* handler has ended with a non-empty error message shown, has not navigated
\* and has issued no profile-creation call, and isLoading is false, so that
\* the form can be submitted again.
C12_AuthFailureRecoverable ==
    /\ (page = "login" /\ AuthCallFailed("handleManualAuth")) =>
           /\ lg.pc = "done"
           /\ ~Falsy(lgError)
           /\ ~lgIsLoading
           /\ NavsBy("handleManualAuth") = <<>>
           /\ ProfileCallsBy("handleManualAuth") = <<>>
           /\ ENABLED HandleManualAuth(UserEmail, "pw")
    /\ (page = "signup" /\ AuthCallFailed("handleSubmit")) =>
           /\ su.pc = "done"
           /\ ~Falsy(suError)
           /\ ~suIsLoading
           /\ NavsBy("handleSubmit") = <<>>
           /\ ProfileCallsBy("handleSubmit") = <<>>
           /\ NavsBy("checkAuthAndProfile") = <<>> =>
                  ENABLED (\E form \in FormData : HandleSubmit(form))

\* signUp of the sign-up page threw an error without a message
C12_Witness ==
    /\ page = "signup" /\ su.pc = "done"
    /\ \E i \in DOMAIN calls :
           calls[i].by = "handleSubmit" /\ calls[i].fn = "signUp" /\ calls[i].result = "throw"
    /\ suError = "An error occurred. Please try again."
    /\ ~suIsLoading

---------------------------------------------------------------------------
(* Properties of the dashboard's reads *)

\* a read of this kind is issued by the step
IssuedIn(r) == CopiesIn(r, pending') > CopiesIn(r, pending)

\* the reads of this kind that the step answers
AnsweredIn(kind) ==
    {r \in BagToSet(pending) : r.kind = kind /\ CopiesIn(r, pending') < CopiesIn(r, pending)}

C13_Step ==
    /\ \A r \in BagToSet(pending') :
           (r.kind = "classmates" /\ IssuedIn(r)) =>
               /\ AnsweredIn("profile") # {}
               /\ studentProfile' # NoProfile
               /\ r.department = studentProfile'.department
               /\ r.section = studentProfile'.section
    /\ \A r \in BagToSet(pending') :
           (r.kind = "leaderboard" /\ IssuedIn(r)) =>
               \E c \in AnsweredIn("classmates") :
                   r.department = c.department /\ r.section = c.section
    /\ (AnsweredIn("profile") # {} /\ studentProfile' = NoProfile) =>
           \A r \in BagToSet(pending') :
               r.kind \in {"classmates", "leaderboard"} => ~IssuedIn(r)

C13_State ==
    \A r \in BagToSet(pending) :
        r.kind \in {"classmates", "leaderboard"} =>
            \E id \in StudentIds :
                r.department = Profile(id).department /\ r.section = Profile(id).section

\* C13: a roster read is issued only by the step in which a profile read
\* returns a profile, with that profile's department and section, and a
\* leaderboard read only when that roster read returns, with the same filter;
\* a profile read that returns no row issues neither.
C13_RosterGatedOnProfile == []C13_State /\ [][C13_Step]_vars

\* the leaderboard read of student u1's class is in flight
C13_Witness ==
    /\ studentProfile = Profile("u1")
    /\ BagIn(Request("leaderboard", Undefined, "CS", "A"), pending)
    /\ classmates # <<>>

C14_Step ==
    /\ \A request \in Requests :
           /\ (DashLive /\ ResultsResponse(request, TRUE, <<>>)) => quizResults' = <<>>
           /\ (DashLive /\ ClassmatesResponse(request, TRUE, <<>>)) => classmates' = <<>>
           /\ (DashLive /\ LeaderboardResponse(request, TRUE, <<>>)) => leaderboard' = <<>>
           /\ \/ ResultsResponse(request, TRUE, <<>>)
              \/ ClassmatesResponse(request, TRUE, <<>>)
              \/ LeaderboardResponse(request, TRUE, <<>>)
              => (analytics' = analytics /\ dashNavs' = dashNavs)
    /\ (AnsweredIn("analytics") # {} /\ analyticsData'.isNull) =>
           (analytics' = analytics /\ dashNavs' = dashNavs)

\* C14: a results, roster or leaderboard read that returns null data sets
\* its list to the empty list; an analytics read that returns null data
\* leaves analytics as it was, the initial zeros if nothing was computed
\* before; none of them navigates.
C14_FetchFailureYieldsEmpty ==
    /\ [][C14_Step]_vars
    /\ []((authChanges = 0 /\ analyticsData.isNull) => analytics = analyticsInit)

\* the analytics read of a second user failed: the first user's stay shown
C14_Witness ==
    /\ DashLive /\ authChanges = 1
    /\ analyticsData.isNull
    /\ analytics.totalQuizzes = 1
    /\ \A r \in BagToSet(pending) : r.kind # "analytics"

---------------------------------------------------------------------------
(* Properties of profile provisioning *)

\* the step issues a profile-creation call
IssuesProfileCall ==
    \E i \in DOMAIN calls' :
        /\ calls'[i].fn \in ProfileRpcs
        /\ calls'[i].result = "pending"
        /\ \A j \in DOMAIN calls : calls[j] # calls'[i]

\* C15: at most one profile-provisioning call is issued in a session, over
\* any sequence of sign-up submissions and callback mounts.  A call that
\* succeeded has left a profile row, so no provisioning call is issued any
\* more once the identity has a profile.
C15_ProvisionedOncePerSession == [][IssuesProfileCall => profiles = EmptyBag]_vars

\* the last call of a handler in a log
LastCall(log, by) == CallsIn(log, by)[Len(CallsIn(log, by))]

\* the step in which the provisioning call of a handler returns without error
ProvisioningReturns(by) ==
    /\ CallsIn(calls, by) # <<>>
    /\ LastCall(calls, by).fn \in ProfileRpcs
    /\ LastCall(calls, by).result = "pending"
    /\ CallsIn(calls', by) # <<>>
    /\ LastCall(calls', by).fn = LastCall(calls, by).fn
    /\ LastCall(calls', by).result = "ok"

NavsIn(log, by) == SelectSeq(log, LAMBDA n : n.by = by)

C16_Step ==
    /\ (/\ ProvisioningReturns("handleAuth")
        /\ BagIn(<<cb.email, IF cb.userType = "faculty" THEN "faculty" ELSE "student">>,
                 profiles)) =>
           /\ profiles' = profiles
           /\ navs' = Append(navs, Nav("handleAuth", "replace",
                                       DashboardPath(cb.userType), ""))
    /\ (/\ ProvisioningReturns("handleSubmit")
        /\ BagIn(<<su.form.email, su.userType>>, profiles)) =>
           /\ profiles' = profiles
           /\ suError' = ""
           /\ Len(NavsIn(navs', "handleSubmit")) = 1
           /\ NavsIn(navs', "handleSubmit")[1].path = DashboardPath(su.userType)

\* C16: the backend creating a row only if it is absent, there is at most one
\* profile row per identity and role after any sequence of sign-up
\* submissions and callback mounts; a provisioning call for an identity that
\* has the role's profile already adds no row, shows no error and is followed
\* by the navigation to the role's dashboard.
C16_OneProfilePerRole ==
    /\ [](\A row \in BagToSet(profiles) : CopiesIn(row, profiles) = 1)
    /\ [][C16_Step]_vars

\* the existence check of the sign-up page found the student profile and
\* redirected before the provisioning call of a submission returned
C16_Witness ==
    /\ page = "signup" /\ su.pc = "done" /\ su.userType = "student"
    /\ chk.userTypeToCheck = "student"
    /\ Len(navs) = 2
    /\ navs[1].by = "checkAuthAndProfile" /\ navs[2].by = "handleSubmit"
    /\ LastCall(calls, "handleSubmit").fn = "create_student_profile"
    /\ LastCall(calls, "handleSubmit").result = "ok"
    /\ CopiesIn(<<UserEmail, "student">>, profiles) = 1

---------------------------------------------------------------------------
(* Properties of the landing pages *)

\* the role of the user as far as the client knows it: the role remembered
\* in localStorage, "student" by default
RememberedRole == IF localUserType = "faculty" THEN "faculty" ELSE "student"

\* C17: a landing page that found a session has navigated to the dashboard
\* of the user's role: the callback once it is routed, the home page once
\* useSession() has reported the session.
C17_LandingByRole ==
    /\ (page = "callback" /\ cb.pc = "routed") =>
           /\ Len(navs) = 1
           /\ navs[1].path = DashboardPath(RememberedRole)
    /\ (page = "home" /\ home.status # "loading" /\ home.session # Null) =>
           /\ Len(navs) = 1
           /\ navs[1].path = DashboardPath(RememberedRole)

---------------------------------------------------------------------------
(* Properties of the dashboard's reads against fixed tables *)

\* every read of the mounted dashboard has returned
C18_Settled == DashLive /\ user # Null /\ pending = EmptyBag

C18_Final ==
    C18_Settled =>
        /\ studentProfile = IF backend.noProfile THEN NoProfile ELSE Profile(user)
        /\ quizResults = IF backend.results.isNull THEN <<>> ELSE backend.results.rows
        /\ classmates = IF backend.noProfile \/ backend.classmates.isNull
                        THEN <<>> ELSE backend.classmates.rows
        /\ leaderboard = IF backend.noProfile \/ backend.leaderboard.isNull
                         THEN <<>> ELSE backend.leaderboard.rows
        /\ analytics = IF backend.analytics.isNull
                       THEN [averageScore |-> Num(0), totalQuizzes |-> 0, completed |-> 0]
                       ELSE Analytics(backend.analytics.rows)
        /\ loadingData = FALSE

C18_Step ==
    /\ AnsweredIn("profile") # {} =>
           UNCHANGED <<quizResults, classmates, leaderboard, analytics, loadingData>>
    /\ AnsweredIn("results") # {} =>
           UNCHANGED <<studentProfile, classmates, leaderboard, analytics>>
    /\ AnsweredIn("analytics") # {} =>
           UNCHANGED <<studentProfile, quizResults, classmates, leaderboard, loadingData>>
    /\ AnsweredIn("classmates") # {} =>
           UNCHANGED <<studentProfile, quizResults, leaderboard, analytics, loadingData>>
    /\ AnsweredIn("leaderboard") # {} =>
           UNCHANGED <<studentProfile, quizResults, classmates, analytics, loadingData>>

\* C18: for a fixed user and fixed tables, once every read has returned the
\* dashboard's state (studentProfile, quizResults, classmates, leaderboard,
\* analytics, loadingData) is the one the tables determine, in whatever order
\* the responses arrived; a response changes only the state of its own read.
C18_OrderIndependent == []C18_Final /\ [][C18_Step]_vars

\* all reads of student u1 returned rows
C18_Witness ==
    /\ C18_Settled /\ user = "u1"
    /\ studentProfile = Profile("u1")
    /\ quizResults = <<"q1">>
    /\ leaderboard = <<"u2", "u1">>
    /\ analytics.totalQuizzes = 1

---------------------------------------------------------------------------
(* Properties of a single run of a handler *)

Handlers == {"handleAuth", "handleSubmit", "handleManualAuth"}

RemoteCalls == {"getSession", "signInWithPassword", "signUp"} \cup ProfileRpcs

\* C19: nothing is retried: the run of a handler (handleManualAuth,
\* handleSubmit, handleAuth) has issued each of getSession,
\* signInWithPassword, signUp and the profile-creation calls at most once,
\* and no call is in flight for it after one of its calls returned an error.
C19_NoRetry ==
    \A by \in Handlers :
        /\ \A fn \in RemoteCalls :
               Len(SelectSeq(calls, LAMBDA c : c.by = by /\ c.fn = fn)) <= 1
        /\ Len(ProfileCallsBy(by)) <= 1
        /\ (\E i \in DOMAIN calls :
                calls[i].by = by /\ calls[i].result \in {"error", "throw"}) =>
               \A j \in DOMAIN calls : calls[j].by = by => calls[j].result # "pending"

\* the provisioning call of the callback returned an error and the run ended
C19_Witness ==
    /\ page = "callback" /\ cb.pc = "routed"
    /\ Len(CallsBy("handleAuth")) = 2
    /\ CallsBy("handleAuth")[2].fn \in ProfileRpcs
    /\ CallsBy("handleAuth")[2].result = "error"

\* C20: in a callback run with a session, a navigation to a dashboard
\* happens only after the provisioning call has returned (a result or an
\* error); the run issues at most one provisioning call, and the call is
\* create_faculty_profile exactly when the target is /faculty/dashboard.
C20_ProvisionThenRoute ==
    (page = "callback" /\ SessionRead /\ cb.session # Null) =>
        LET rpcs == ProfileCallsBy("handleAuth")
        IN  /\ Len(rpcs) <= 1
            /\ (\A i \in DOMAIN rpcs : rpcs[i].result = "pending") =>
                   \A n \in DOMAIN navs : navs[n].path \notin DashboardPaths
            /\ \A n \in DOMAIN navs :
                   navs[n].path \in DashboardPaths =>
                       /\ Len(rpcs) = 1
                       /\ rpcs[1].result \in {"ok", "error"}
                       /\ rpcs[1].fn = "create_faculty_profile"
                              <=> navs[n].path = "/faculty/dashboard"
                       /\ rpcs[1].fn = "create_student_profile"
                              <=> navs[n].path = "/student/dashboard"

\* a faculty run whose provisioning call failed, landed on the faculty
\* dashboard
C20_Witness ==
    /\ page = "callback" /\ cb.pc = "routed" /\ cb.userType = "faculty"
    /\ ProfileCallsBy("handleAuth")[1].fn = "create_faculty_profile"
    /\ ProfileCallsBy("handleAuth")[1].result = "error"
    /\ navs = <<Nav("handleAuth", "replace", "/faculty/dashboard", "")>>

---------------------------------------------------------------------------
(* Properties of the role default and of the order of the remote calls *)

\* C21: in the callback the remembered role defaults to "student": with the
\* stored userType absent, empty or anything but "faculty" the run issues
\* create_student_profile and lands on /student/dashboard; with exactly
\* "faculty" it issues create_faculty_profile and lands on
\* /faculty/dashboard.
C21_StudentByDefault ==
    (page = "callback" /\ cb.pc \in {"provisioning", "routed"}) =>
        LET rpcs == ProfileCallsBy("handleAuth")
            fn == IF localUserType = "faculty"
                  THEN "create_faculty_profile" ELSE "create_student_profile"
            path == IF localUserType = "faculty"
                    THEN "/faculty/dashboard" ELSE "/student/dashboard"
        IN  /\ Len(rpcs) = 1 /\ rpcs[1].fn = fn
            /\ cb.pc = "routed" => (Len(navs) = 1 /\ navs[1].path = path)
            /\ \A n \in DOMAIN navs : navs[n].path = path

\* a stored value that names no role
C21_Witness ==
    /\ page = "callback" /\ cb.pc = "routed"
    /\ localUserType = "admin"
    /\ ProfileCallsBy("handleAuth")[1].fn = "create_student_profile"
    /\ navs[1].path = "/student/dashboard"

IdentityCalls == {"getSession", "signUp"}

\* C22: a profile-provisioning call of the callback or of a sign-up
\* submission is issued only after a session fetch or a signUp of the same
\* handler run has returned without error.
C22_IdentityBeforeProvisioning ==
    \A i \in DOMAIN calls :
        calls[i].fn \in ProfileRpcs =>
            \E j \in 1..(i - 1) :
                /\ calls[j].by = calls[i].by
                /\ calls[j].fn \in IdentityCalls
                /\ calls[j].result = "ok"

---------------------------------------------------------------------------
(* Properties of the sign-up page *)

\* a student submission is past its validation
C23_Submitted ==
    page = "signup" /\ su.userType = "student" /\ CallsBy("handleSubmit") # <<>>

\* C23: in a student sign-up, a signUp that returned an error is followed by
\* no create_student_profile call: the message is shown, isLoading is false
\* and the handler has not navigated; the handler navigates, to
\* /student/dashboard, only when signUp and create_student_profile have both
\* returned without error.
C23_StudentSignUpOrder ==
    C23_Submitted =>
        LET cs == CallsBy("handleSubmit")
            ns == NavsBy("handleSubmit")
        IN  /\ cs[1].fn = "signUp"
            /\ cs[1].result = "error" =>
                   /\ Len(cs) = 1
                   /\ su.pc = "done"
                   /\ suError \in ErrMsgs
                   /\ ~suIsLoading
                   /\ ns = <<>>
            /\ ns # <<>> =>
                   /\ ns = <<Nav("handleSubmit", "push", "/student/dashboard", "")>>
                   /\ Len(cs) = 2
                   /\ cs[1].result = "ok"
                   /\ cs[2].fn = "create_student_profile" /\ cs[2].result = "ok"

\* signUp returned the error of a duplicate registration
C23_Witness ==
    /\ C23_Submitted /\ su.pc = "done"
    /\ CallsBy("handleSubmit")[1].result = "error"
    /\ suError = "Duplicate entry"
    /\ navs = <<>>

\* the role checkAuthAndProfile checks
C24_Role == IF chk.userTypeToCheck = "faculty" THEN "faculty" ELSE "student"

C24_Step ==
    \* the mount: the role checked is the query parameter's, else "student"
    /\ (chk.pc # "getSession" /\ chk'.pc = "getSession") =>
           /\ chk'.userTypeToCheck = suUserType'
           /\ navs' = <<>>
    \* no session: the check ends without a lookup and without a redirect
    /\ (chk.pc = "getSession" /\ chk'.pc = "done") =>
           /\ NavsIn(navs', "checkAuthAndProfile") = <<>>
           /\ Len(CallsIn(calls', "checkAuthAndProfile")) = 1
    \* the lookup returns: a redirect exactly when the row exists
    /\ (chk.pc = "select" /\ chk'.pc = "done") =>
           LET found == BagIn(<<chk.email, C24_Role>>, profiles)
               readOk == LastCall(calls', "checkAuthAndProfile").result = "ok"
               target == Nav("checkAuthAndProfile", "replace", DashboardPath(C24_Role), "")
           IN  /\ (found /\ readOk) => navs' = Append(navs, target)
               /\ ~found => navs' = navs
               /\ navs' # navs => navs' = Append(navs, target)

C24_State ==
    page = "signup" =>
        /\ ProfileCallsBy("checkAuthAndProfile") = <<>>
        /\ NavsBy("checkAuthAndProfile") # <<>> =>
               /\ chk.pc = "done" /\ chk.email = UserEmail
               /\ NavsBy("checkAuthAndProfile")
                      = <<Nav("checkAuthAndProfile", "replace", DashboardPath(C24_Role), "")>>
               /\ BagIn(<<chk.email, C24_Role>>, profiles)

---------------------------------------------------------------------------
(* Properties of the unauthenticated guards *)

ToLogin(by) == Nav(by, "push", "/login", "")

C25_State ==
    /\ (page = "home" /\ home.status = "loading") => navs = <<>>
    /\ (page = "home" /\ home.status # "loading" /\ home.session = Null) =>
           navs = <<ToLogin("HomePage")>>
    /\ (dashMounted /\ ~loading /\ user = Null) =>
           (dashNavs # <<>> /\ dashNavs[Len(dashNavs)] = ToLogin("StudentDashboard"))

C25_Step ==
    \* no navigation of the dashboard while the auth state is loading
    /\ (dashMounted' /\ loading') => dashNavs' = dashNavs
    \* no read is issued in a state without a user
    /\ \A r \in BagToSet(pending') : IssuedIn(r) => user' # Null

\* C25: while the auth status is loading neither the home page nor the
\* student dashboard navigates; once it has loaded without a user each has
\* navigated to /login; and the dashboard issues no read (profile, results,
\* roster, leaderboard, analytics) in a state where user is null.
C25_UnauthenticatedGuard == []C25_State /\ [][C25_Step]_vars

---------------------------------------------------------------------------
(* Properties of the login page *)

---------------------------------------------------------------------------
(* Properties of the submit handlers *)

StudentIncomplete(form) ==
    \/ form.class = "" \/ form.section = "" \/ form.username = ""
    \/ form.email = "" \/ form.password = ""

FacultyIncomplete(form) ==
    form.department = "" \/ form.section = "" \/ form.username = ""

\* what a rejected submission leaves behind
C27_Rejected(message) ==
    /\ CallsIn(calls', "handleSubmit") = <<>>
    /\ navs' = navs
    /\ suError' = message
    /\ ~suIsLoading'
    /\ su'.pc = "done"

C27_Step ==
    (page = "signup" /\ page' = "signup" /\ ~suIsLoading) =>
        \* a submission that went on to a remote call was complete
        /\ (su'.pc = "signUp" /\ su.pc # "signUp") => ~StudentIncomplete(su'.form)
        /\ (su'.pc = "createFacultyProfile" /\ su.pc # "createFacultyProfile") =>
               ~FacultyIncomplete(su'.form)
        \* every step that is an incomplete submission is a rejection
        /\ (su'.pc = "done" /\ suUserType = "student") =>
               \/ C27_Rejected("All fields are required for students.")
               \/ \A form \in FormData : ~(StudentIncomplete(form) /\ HandleSubmit(form))
        /\ (su'.pc = "done" /\ suUserType = "faculty") =>
               \/ C27_Rejected("Department, section, and username are required for faculty.")
               \/ \A form \in FormData : ~(FacultyIncomplete(form) /\ HandleSubmit(form))
        /\ su'.pc \notin {"done", "signUp", "createFacultyProfile"} =>
               \A form \in FormData : ~HandleSubmit(form)

\* the remote calls of a submission carry the fields the validation requires
C27_State ==
    \A i \in DOMAIN calls :
        calls[i].by = "handleSubmit" =>
            /\ calls[i].args.department # ""
            /\ calls[i].args.section # ""
            /\ calls[i].args.username # ""
            /\ calls[i].fn \in {"signUp", "create_student_profile"} =>
                   calls[i].args.user_email # ""
            /\ (calls[i].fn = "signUp" /\ su.pc = "signUp") => su.form.password # ""

\* C27: the validation of a sign-up submission comes before every remote
\* call: a student submission with class, section, username, email or
\* password empty, or a faculty submission with department, section or
\* username empty, issues neither signUp nor a profile-creation call, does
\* not navigate, shows the validation message and leaves isLoading false.
C27_ValidationFirst == []C27_State /\ [][C27_Step]_vars

\* a student submission was rejected by the validation
C27_Witness ==
    /\ page = "signup" /\ su.pc = "done" /\ su.userType = "student"
    /\ suError = "All fields are required for students."
    /\ CallsBy("handleSubmit") = <<>>
    /\ navs = <<>> /\ ~suIsLoading

---------------------------------------------------------------------------
(* Properties of the dashboard under a change of user *)

\* the profile, results and analytics reads the step answers that were issued
\* for a user other than the current one
StaleAnswers ==
    {r \in AnsweredIn("profile") \cup AnsweredIn("results") \cup AnsweredIn("analytics") :
        r.user # user}

\* C28: the dashboard's state belongs to the current user: when the user
\* changed or signed out while a profile, results or analytics read was in
\* flight, the late response of the read issued for the previous user is not
\* written into studentProfile, quizResults or analytics.
C28_NoStaleWrite ==
    [][StaleAnswers # {} => UNCHANGED <<studentProfile, quizResults, analytics>>]_vars

\* a results read is in flight
ResultsInFlight == \E r \in BagToSet(pending) : r.kind = "results"

\* loadingData is true while a results read is in flight
C29_State == (dashMounted /\ ResultsInFlight) => loadingData

\* loadingData, once false, stays false until a results read is started
C29_Step ==
    (dashMounted /\ ~loadingData /\ loadingData') =>
        \E r \in BagToSet(pending') : r.kind = "results" /\ IssuedIn(r)

\* C29: the dashboard leaves its loading state: loadingData is true whenever
\* a results read is in flight, and after the read returned it is false and
\* stays false until the next results read is started.
C29_LoadingData == []C29_State /\ [][C29_Step]_vars

---------------------------------------------------------------------------
(* Properties of isLoading *)

\* a submit handler of the page is between its start and its finish
SubmitRunning ==
    \/ su.pc \in {"signUp", "rpc", "createFacultyProfile"}
    \/ lg.pc \in {"signUp", "signIn"}

\* the submit control of the mounted page accepts a submission
SubmitEnabled ==
    \/ ENABLED (\E form \in FormData : HandleSubmit(form))
    \/ ENABLED (\E email \in FieldValues(UserEmail), password \in FieldValues("pw") :
                   HandleManualAuth(email, password))

\* C30: at most one form submission is in flight per page: isLoading is true
\* from the start of a submit handler until it finishes, no submission is
\* accepted while isLoading is true or a handler is running, and isLoading
\* is false whenever no submit handler is running, whichever way the handler
\* ended.
C30_OneSubmission ==
    /\ suIsLoading <=> su.pc \in {"signUp", "rpc", "createFacultyProfile"}
    /\ lgIsLoading <=> lg.pc \in {"signUp", "signIn"}
    /\ SubmitEnabled => (~SubmitRunning /\ ~suIsLoading /\ ~lgIsLoading)
    /\ \A by \in {"handleSubmit", "handleManualAuth"} :
           Len(SelectSeq(calls, LAMBDA c : c.by = by /\ c.result = "pending")) <= 1

\* a password login ended by a thrown exception and the form accepts the next
\* submission
C30_Witness ==
    /\ page = "login" /\ lg.pc = "done"
    /\ \E i \in DOMAIN calls :
           calls[i].by = "handleManualAuth" /\ calls[i].result = "throw"
    /\ lgError = "Something went wrong. Please try again."
    /\ ~lgIsLoading
    /\ SubmitEnabled

====
